---- MODULE Spec2Model ----
(***************************************************************************)
(* Model of the Sense HAT LED-matrix scheduling experiment:                *)
(*   src/led_matrix.c   the driver (open/close, colour codec, pixel ops)  *)
(*   src/lab3_task2.c   main(): rounds of forked workers lighting rows    *)
(*                                                                         *)
(* Four specifications share the variables:                                *)
(*   Spec      main() with its forked workers, every interleaving          *)
(*   FairSpec  Spec plus weak fairness of the parent and of each worker    *)
(*   DrvSpec   the driver's pixel operations called with arbitrary         *)
(*             arguments on a mapped grid                                  *)
(*   CodecSpec one call of make_rgb565_color                               *)
(***************************************************************************)
EXTENDS Integers, Sequences, FiniteSets, TLC

(* ---------------------------------------------------------------------- *)
(* Program constants (led_matrix.h part of src/led_matrix.c)               *)
(* ---------------------------------------------------------------------- *)
NUM_LEDS == 64
ROW_SIZE == 8
COL_SIZE == 8
RGB565_OFF == 0
RGB565_WHITE == 65535
RGB565_RED == 63488
RGB565_GREEN == 2016
RGB565_BLUE == 31
RGB565_CYAN == 2047
RGB565_MAGENTA == 63519
RGB565_YELLOW == 65504
\* make_rgb565_color takes channels "in the more common range 0-255".
ChannelMax == 255

(* ---------------------------------------------------------------------- *)
(* Bounds of the model                                                     *)
(* ---------------------------------------------------------------------- *)
\* The outer loop of main() runs num_children = 1..8; the model runs
\* num_children = 1..MaxChildren.
MaxChildren == 3
\* DrvSpec calls set_led with row, col in -CoordSlack..ROW_SIZE-1+CoordSlack.
CoordSlack == 1
\* DrvSpec performs at most MaxOps driver calls.
MaxOps == 2

Cells == 0..(NUM_LEDS - 1)
Channel == 0..ChannelMax
\* CodecSpec varies one channel over 0..255 and draws the other two here.
ChannelSamples == {0, 3, 4, 7, 8, ChannelMax}
CodecInputs ==
    (Channel \X ChannelSamples \X ChannelSamples)
    \cup (ChannelSamples \X Channel \X ChannelSamples)
    \cup (ChannelSamples \X ChannelSamples \X Channel)
Colors == {RGB565_OFF, RGB565_WHITE}
FillColors == {RGB565_OFF, RGB565_WHITE, RGB565_RED}
Coords == (0 - CoordSlack)..(ROW_SIZE - 1 + CoordSlack)

\* A worker process is identified by the round that forked it and its n.
Pids == (1..MaxChildren) \X (0..(MaxChildren - 1))

NoWrite == 0 - 1000

VARIABLES
    led_map,      \* contents of the mapped framebuffer, index -> colour
    fbfd,         \* global fbfd: the value open_led_fb() returned
    fd_open,      \* the kernel holds an open descriptor for the device
    mapped,       \* the framebuffer is mapped at led_map
    ppc,          \* position of the parent in main()
    num_children, \* outer loop variable of main()
    n,            \* inner loop variable of main() (fork loop, wait loop)
    ret,          \* main()'s return value, once it returned
    proc,         \* child processes not yet reaped: pid -> [pc, i, nice]
    parent_nice,  \* nice value of the parent
    spawned,      \* history: successful forks of the current round
    exited,       \* history: exit(0) calls since the current round began
    joined,       \* history: wait() calls of the current round that reaped
    rounds,       \* history: num_children of every completed round
    close_calls,  \* history: calls of close_led_matrix()
    close_ret,    \* what close_led_matrix() returned
    late_write,   \* history: a pixel write happened after close_led_matrix()
    failed,       \* history: the n whose fork failed in the current round
    writers,      \* history: cell -> pids that wrote it since the last clear
    fault,        \* outcome of a store outside the mapped region
    drv_call,     \* DrvSpec: the last driver call and what it wrote
    prev_map,     \* DrvSpec: led_map before the last driver call
    drv_ops,      \* DrvSpec: number of driver calls made
    open_call,    \* history: the open_led_matrix() call, its outcomes and result
    close_call,   \* history: the close_led_matrix() call, its outcomes and result
    pixel_ops,    \* history: some pixel operation has been performed
    codec         \* CodecSpec: the last make_rgb565_color call and its result

vars == <<led_map, fbfd, fd_open, mapped, ppc, num_children, n, ret, proc,
          parent_nice, spawned, exited, joined, rounds, close_calls,
          close_ret, late_write, failed, writers, fault, drv_call,
          prev_map, drv_ops, open_call, close_call, pixel_ops, codec>>

mainVars == <<fbfd, fd_open, mapped, ppc, num_children, n, ret, proc,
              parent_nice, spawned, exited, joined, rounds, close_calls,
              close_ret, late_write, failed, writers, open_call,
              close_call, pixel_ops>>

drvVars == <<drv_call, prev_map, drv_ops, codec>>

(* ---------------------------------------------------------------------- *)
(* led_matrix.c: colour codec                                              *)
(* ---------------------------------------------------------------------- *)
\* x >> k on an int (arithmetic shift) and x << k.
shr(x, k) == x \div (2 ^ k)
shl(x, k) == x * (2 ^ k)
\* x & m for a mask m = 2^k - 1.
band(x, m) == x % (m + 1)

\* Mutant: green is shifted like red and blue (g >> 3).
make_rgb565_color_g3(r, g, b) ==
    LET r1 == band(shr(r, 3), 31)
        g1 == band(shr(g, 3), 63)
        b1 == band(shr(b, 3), 31)
    IN  (shl(r1, 11) + shl(g1, 5) + b1) % 65536

\* make_rgb565_color: the int rgb565 is returned as uint16_t.
make_rgb565_color(r, g, b) ==
    LET r1 == band(shr(r, 3), 31)
        g1 == band(shr(g, 2), 63)
        b1 == band(shr(b, 3), 31)
    IN  (shl(r1, 11) + shl(g1, 5) + b1) % 65536

(* ---------------------------------------------------------------------- *)
(* led_matrix.c: pixel operations                                          *)
(* ---------------------------------------------------------------------- *)
\* Mutant: the row stride is one short.
led_num_stride7(row, col) == row * (ROW_SIZE - 1) + col

\* set_led: int led_num = row * ROW_SIZE + col;
led_num(row, col) == row * ROW_SIZE + col

\* set_led stores unless led_num >= NUM_LEDS.
set_led_stores(row, col) == ~(led_num(row, col) >= NUM_LEDS)

\* The index set_led stores at, NoWrite when it returns early.
set_led_index(row, col) ==
    IF set_led_stores(row, col) THEN led_num(row, col) ELSE NoWrite

\* The grid after set_led(row, col, color).  A store outside the mapped
\* region does not land in the grid.
set_led(map, row, col, color) ==
    IF set_led_stores(row, col) /\ led_num(row, col) \in DOMAIN map
    THEN [map EXCEPT ![led_num(row, col)] = color]
    ELSE map

\* A store outside the mapped region is undefined behaviour: the process is
\* killed by a signal, or some other memory of the process is overwritten.
set_led_fault(f, row, col) ==
    IF set_led_stores(row, col) /\ led_num(row, col) \notin Cells
    THEN {"segv", "corrupt"}
    ELSE {f}

\* Mutant: the loop stops one cell early (i < NUM_LEDS - 1).
set_leds_single_color_short(map, color) ==
    [c \in DOMAIN map |-> IF c < NUM_LEDS - 1 THEN color ELSE map[c]]

\* Mutant: the loop starts at the second cell (i = 1).
set_leds_single_color_skip0(map, color) ==
    [c \in DOMAIN map |-> IF c >= 1 THEN color ELSE map[c]]

\* set_leds_single_color: every one of the NUM_LEDS cells gets color.
set_leds_single_color(map, color) == [c \in DOMAIN map |-> color]

\* clear_leds: set_leds_single_color(RGB565_OFF).
clear_leds(map) == set_leds_single_color(map, RGB565_OFF)

AllOff == [c \in Cells |-> RGB565_OFF]
AllWhite == [c \in Cells |-> RGB565_WHITE]
Checker == [c \in Cells |-> IF c % 2 = 0 THEN RGB565_WHITE ELSE RGB565_OFF]

\* What the device memory may hold when the program starts.
InitGrids == {AllOff, AllWhite, Checker}
DrvInitGrids == {AllOff, Checker}

NoCall == [op |-> "none", row |-> 0, col |-> 0, color |-> 0, index |-> NoWrite]

NoWriters == [c \in Cells |-> {}]

\* Values of the history variables before the call they record.
NoOpen == [ret |-> 1, open_ok |-> FALSE, ioctl_ok |-> FALSE, id |-> "",
           mmap_ok |-> FALSE]
NoClose == [ret |-> 1, munmap_ok |-> FALSE, close_ok |-> FALSE]
NoCodec == [op |-> "none", r |-> 0, g |-> 0, b |-> 0, out |-> 0]

(* ---------------------------------------------------------------------- *)
(* led_matrix.c: device lifecycle                                          *)
(* ---------------------------------------------------------------------- *)
DeviceId == "RPi-Sense FB"
DeviceIds == {"RPi-Sense FB", "RPi-Sense FB2", "BCM2708 FB", ""}
\* The descriptor number open() hands out.
NewFd == 3

\* open_led_fb: [fd |-> what it returns, isopen |-> the descriptor is open]
open_led_fb(open_ok, ioctl_ok, id) ==
    IF ~open_ok THEN [fd |-> 0 - 1, isopen |-> FALSE]
    ELSE IF ~ioctl_ok THEN [fd |-> 0 - 1, isopen |-> FALSE]
    ELSE IF id # DeviceId THEN [fd |-> 0 - 1, isopen |-> FALSE]
    ELSE [fd |-> NewFd, isopen |-> TRUE]

\* Mutant: the failure path of mmap_led_fb returns without close(fbfd).
mmap_led_fb_leak(mmap_ok) ==
    IF ~mmap_ok THEN [map |-> FALSE, isopen |-> TRUE]
    ELSE [map |-> TRUE, isopen |-> TRUE]

\* mmap_led_fb: [map |-> mapping established, isopen |-> descriptor open]
mmap_led_fb(mmap_ok) ==
    IF ~mmap_ok THEN [map |-> FALSE, isopen |-> FALSE]
    ELSE [map |-> TRUE, isopen |-> TRUE]

\* open_led_matrix: 0 on success, -1 on error.
open_led_matrix(open_ok, ioctl_ok, id, mmap_ok) ==
    LET f == open_led_fb(open_ok, ioctl_ok, id) IN
    IF f.fd = 0 - 1
    THEN [ret |-> 0 - 1, fd |-> f.fd, isopen |-> f.isopen, map |-> FALSE]
    ELSE LET m == mmap_led_fb(mmap_ok) IN
         IF ~m.map
         THEN [ret |-> 0 - 1, fd |-> f.fd, isopen |-> m.isopen, map |-> FALSE]
         ELSE [ret |-> 0, fd |-> f.fd, isopen |-> TRUE, map |-> TRUE]

\* Mutant: ret is assigned the result of close() alone.
close_led_matrix_lastonly(munmap_ok, close_ok) ==
    IF close_ok THEN 0 ELSE 0 - 1

\* close_led_matrix: both steps run; -1 if either failed.
close_led_matrix(munmap_ok, close_ok) ==
    LET r1 == IF munmap_ok THEN 0 ELSE 0 - 1
        r2 == IF close_ok THEN r1 ELSE 0 - 1
    IN  r2

(* ---------------------------------------------------------------------- *)
(* lab3_task2.c: main() and its workers                                    *)
(* ---------------------------------------------------------------------- *)
Live == {p \in DOMAIN proc : proc[p].pc # "zombie"}
Zombies == {p \in DOMAIN proc : proc[p].pc = "zombie"}

\* Mutant: run_child passes the coordinates in the other order.
run_child_led_swapped(nn, i) == <<i, nn>>

\* Mutant: run_child lights the columns from the last to the first.
run_child_led_reversed(nn, i) == <<nn, COL_SIZE - 1 - i>>

\* run_child: the (row, col) of the set_led call of iteration i.
run_child_led(nn, i) == <<nn, i>>

\* Mutant: main ignores the result of open_led_matrix().
MainOpenUnchecked ==
    /\ ppc = "open"
    /\ \E open_ok \in BOOLEAN, ioctl_ok \in BOOLEAN, mmap_ok \in BOOLEAN,
          id \in DeviceIds :
          LET r == open_led_matrix(open_ok, ioctl_ok, id, mmap_ok) IN
          /\ fbfd' = r.fd
          /\ fd_open' = r.isopen
          /\ mapped' = r.map
          /\ open_call' = [ret |-> r.ret, open_ok |-> open_ok,
                           ioctl_ok |-> ioctl_ok, id |-> id,
                           mmap_ok |-> mmap_ok]
          /\ ppc' = "clear0"
          /\ ret' = ret
    /\ UNCHANGED <<led_map, num_children, n, proc, parent_nice, spawned,
                   exited, joined, rounds, close_calls, close_ret,
                   late_write, failed, writers, fault>>
    /\ UNCHANGED <<close_call, pixel_ops>>
    /\ UNCHANGED drvVars

\* main, line 25: open_led_matrix(), return -1 when it fails.
MainOpen ==
    /\ ppc = "open"
    /\ \E open_ok \in BOOLEAN, ioctl_ok \in BOOLEAN, mmap_ok \in BOOLEAN,
          id \in DeviceIds :
          LET r == open_led_matrix(open_ok, ioctl_ok, id, mmap_ok) IN
          /\ fbfd' = r.fd
          /\ fd_open' = r.isopen
          /\ mapped' = r.map
          /\ open_call' = [ret |-> r.ret, open_ok |-> open_ok,
                           ioctl_ok |-> ioctl_ok, id |-> id,
                           mmap_ok |-> mmap_ok]
          /\ IF r.ret = 0 - 1
             THEN ppc' = "done" /\ ret' = 0 - 1
             ELSE ppc' = "clear0" /\ ret' = ret
    /\ UNCHANGED <<led_map, num_children, n, proc, parent_nice, spawned,
                   exited, joined, rounds, close_calls, close_ret,
                   late_write, failed, writers, fault>>
    /\ UNCHANGED <<close_call, pixel_ops>>
    /\ UNCHANGED drvVars

\* main, line 30: clear_leds() before the first round.
MainFirstClear ==
    /\ ppc = "clear0"
    /\ led_map' = clear_leds(led_map)
    /\ writers' = NoWriters
    /\ late_write' = (late_write \/ close_calls > 0)
    /\ ppc' = "fork"
    /\ num_children' = 1
    /\ n' = 0
    /\ UNCHANGED <<fbfd, fd_open, mapped, ret, proc, parent_nice, spawned,
                   exited, joined, rounds, close_calls, close_ret, failed,
                   fault>>
    /\ pixel_ops' = TRUE
    /\ UNCHANGED <<open_call, close_call>>
    /\ UNCHANGED drvVars

\* main, lines 33-40: one iteration of the fork loop, seen from the parent.
\* fork() either creates the child (which starts at nice(n)) or returns -1;
\* the parent tests only pid == 0 and goes on to the next n in both cases.
MainFork(ok) ==
    /\ ppc = "fork"
    /\ n < num_children
    /\ IF ok
       THEN /\ proc' = [p \in DOMAIN proc \cup {<<num_children, n>>} |->
                          IF p = <<num_children, n>>
                          THEN [pc |-> "nice", i |-> 0, nice |-> parent_nice]
                          ELSE proc[p]]
            /\ spawned' = spawned + 1
            /\ failed' = failed
       ELSE /\ proc' = proc
            /\ spawned' = spawned
            /\ failed' = failed \cup {n}
    /\ IF n + 1 < num_children
       THEN ppc' = "fork" /\ n' = n + 1
       ELSE ppc' = "wait" /\ n' = 0
    /\ UNCHANGED <<led_map, fbfd, fd_open, mapped, num_children, ret,
                   parent_nice, exited, joined, rounds, close_calls,
                   close_ret, late_write, writers, fault>>
    /\ UNCHANGED <<open_call, close_call, pixel_ops>>
    /\ UNCHANGED drvVars

\* main, lines 41-42: what the parent does when one wait(NULL) returns,
\* having reaped the children in `reaped` (one child or none): n++ and the
\* loop test n < count.
MainWaitReturn(reaped, count) ==
    /\ proc' = [p \in DOMAIN proc \ reaped |-> proc[p]]
    /\ joined' = joined + Cardinality(reaped)
    /\ IF n + 1 < count
       THEN ppc' = "wait" /\ n' = n + 1
       ELSE ppc' = "calc" /\ n' = 0
    /\ UNCHANGED <<led_map, fbfd, fd_open, mapped, num_children, ret,
                   parent_nice, spawned, exited, rounds, close_calls,
                   close_ret, late_write, failed, writers, fault>>
    /\ UNCHANGED <<open_call, close_call, pixel_ops>>
    /\ UNCHANGED drvVars

\* Mutant: wait returns at once while children are still running (WNOHANG).
MainWaitNoHang ==
    /\ ppc = "wait"
    /\ n < num_children
    /\ \/ \E z \in Zombies : MainWaitReturn({z}, num_children)
       \/ Zombies = {} /\ MainWaitReturn({}, num_children)

\* Mutant: the wait loop runs one time too few (n < num_children - 1).
MainWaitShort ==
    /\ ppc = "wait"
    /\ n < num_children
    /\ \/ \E z \in Zombies : MainWaitReturn({z}, num_children - 1)
       \/ DOMAIN proc = {} /\ MainWaitReturn({}, num_children - 1)

\* Mutant: the parent retries a wait that found no child until one reaps.
MainWaitRetry ==
    /\ ppc = "wait"
    /\ n < num_children
    /\ \E z \in Zombies : MainWaitReturn({z}, num_children)

\* main, lines 41-42: one wait(NULL).  It reaps a terminated child, blocks
\* while children exist and none has terminated, and returns -1 at once
\* when the process has no child.
MainWait ==
    /\ ppc = "wait"
    /\ n < num_children
    /\ \/ \E z \in Zombies : MainWaitReturn({z}, num_children)
       \/ DOMAIN proc = {} /\ MainWaitReturn({}, num_children)

\* main, line 43: pointless_calculation() in the parent.
MainCalc ==
    /\ ppc = "calc"
    /\ ppc' = "clear"
    /\ UNCHANGED <<led_map, fbfd, fd_open, mapped, num_children, n, ret, proc,
                   parent_nice, spawned, exited, joined, rounds, close_calls,
                   close_ret, late_write, failed, writers, fault>>
    /\ UNCHANGED <<open_call, close_call, pixel_ops>>
    /\ UNCHANGED drvVars

\* main, lines 44 and 32: clear_leds(), then num_children++ and the loop test.
MainRoundClear ==
    /\ ppc = "clear"
    /\ led_map' = clear_leds(led_map)
    /\ writers' = NoWriters
    /\ late_write' = (late_write \/ close_calls > 0)
    /\ rounds' = Append(rounds, num_children)
    /\ num_children' = num_children + 1
    /\ ppc' = IF num_children + 1 <= MaxChildren THEN "fork" ELSE "close"
    /\ n' = 0
    /\ spawned' = 0
    /\ exited' = 0
    /\ joined' = 0
    /\ failed' = {}
    /\ UNCHANGED <<fbfd, fd_open, mapped, ret, proc, parent_nice, close_calls,
                   close_ret, fault>>
    /\ pixel_ops' = TRUE
    /\ UNCHANGED <<open_call, close_call>>
    /\ UNCHANGED drvVars

\* main, lines 48-53: close_led_matrix() and return.
MainClose ==
    /\ ppc = "close"
    /\ \E munmap_ok \in BOOLEAN, close_ok \in BOOLEAN :
          /\ close_ret' = close_led_matrix(munmap_ok, close_ok)
          /\ close_call' = [ret |-> close_led_matrix(munmap_ok, close_ok),
                            munmap_ok |-> munmap_ok, close_ok |-> close_ok]
          /\ mapped' = IF munmap_ok THEN FALSE ELSE mapped
          /\ fd_open' = IF close_ok THEN FALSE ELSE fd_open
          /\ ret' = IF close_led_matrix(munmap_ok, close_ok) = 0 - 1
                    THEN 0 - 1 ELSE 0
    /\ close_calls' = close_calls + 1
    /\ ppc' = "done"
    /\ UNCHANGED <<led_map, fbfd, num_children, n, proc, parent_nice, spawned,
                   exited, joined, rounds, late_write, failed, writers, fault>>
    /\ UNCHANGED <<open_call, pixel_ops>>
    /\ UNCHANGED drvVars

\* The nice values of a process range up to NiceMax; nice(inc) adds inc to
\* the caller's value v and the kernel clamps the sum to the range.
NiceMax == 19
NiceMin == 0 - 20
nice(v, inc) ==
    IF v + inc > NiceMax THEN NiceMax
    ELSE IF v + inc < NiceMin THEN NiceMin
    ELSE v + inc

\* The nice value main() is started with is inherited from its launcher.
ParentNices == {0, NiceMax}

\* Mutant: the child goes to run_child without calling nice(n).
WNiceSkipped(p) ==
    /\ p \in DOMAIN proc
    /\ proc[p].pc = "nice"
    /\ proc' = [proc EXCEPT ![p].pc = "loop"]
    /\ UNCHANGED <<led_map, fbfd, fd_open, mapped, ppc, num_children, n, ret,
                   parent_nice, spawned, exited, joined, rounds, close_calls,
                   close_ret, late_write, failed, writers, fault>>
    /\ UNCHANGED <<open_call, close_call, pixel_ops>>
    /\ UNCHANGED drvVars

\* The child, line 36: nice(n).
WNice(p) ==
    /\ p \in DOMAIN proc
    /\ proc[p].pc = "nice"
    /\ proc' = [proc EXCEPT ![p].pc = "loop",
                            ![p].nice = nice(@, p[2])]
    /\ UNCHANGED <<led_map, fbfd, fd_open, mapped, ppc, num_children, n, ret,
                   parent_nice, spawned, exited, joined, rounds, close_calls,
                   close_ret, late_write, failed, writers, fault>>
    /\ UNCHANGED <<open_call, close_call, pixel_ops>>
    /\ UNCHANGED drvVars

\* Mutant: the loop of run_child runs while i <= 8.
WSetLedNine(p) ==
    /\ p \in DOMAIN proc
    /\ proc[p].pc = "loop"
    /\ LET rc == run_child_led(p[2], proc[p].i)
           ix == set_led_index(rc[1], rc[2])
       IN  /\ led_map' = set_led(led_map, rc[1], rc[2], RGB565_WHITE)
           /\ fault' \in set_led_fault(fault, rc[1], rc[2])
           /\ writers' = IF ix \in Cells
                         THEN [writers EXCEPT ![ix] = @ \cup {p}]
                         ELSE writers
    /\ late_write' = (late_write \/ close_calls > 0)
    /\ proc' = [proc EXCEPT ![p].i = @ + 1,
                            ![p].pc = IF proc[p].i + 1 <= 8
                                      THEN "loop" ELSE "exit"]
    /\ UNCHANGED <<fbfd, fd_open, mapped, ppc, num_children, n, ret,
                   parent_nice, spawned, exited, joined, rounds, close_calls,
                   close_ret, failed>>
    /\ pixel_ops' = TRUE
    /\ UNCHANGED <<open_call, close_call>>
    /\ UNCHANGED drvVars

\* run_child, lines 17-19: one iteration of the loop, pointless_calculation()
\* (it touches only locals of the child; its sum overflows int, which the
\* build either wraps or drops with the unused variable) followed by
\* set_led(n, i, RGB565_WHITE), then i++ and the loop test.
WSetLed(p) ==
    /\ p \in DOMAIN proc
    /\ proc[p].pc = "loop"
    /\ LET rc == run_child_led(p[2], proc[p].i)
           ix == set_led_index(rc[1], rc[2])
       IN  /\ led_map' = set_led(led_map, rc[1], rc[2], RGB565_WHITE)
           /\ fault' \in set_led_fault(fault, rc[1], rc[2])
           /\ writers' = IF ix \in Cells
                         THEN [writers EXCEPT ![ix] = @ \cup {p}]
                         ELSE writers
    /\ late_write' = (late_write \/ close_calls > 0)
    /\ proc' = [proc EXCEPT ![p].i = @ + 1,
                            ![p].pc = IF proc[p].i + 1 < 8
                                      THEN "loop" ELSE "exit"]
    /\ UNCHANGED <<fbfd, fd_open, mapped, ppc, num_children, n, ret,
                   parent_nice, spawned, exited, joined, rounds, close_calls,
                   close_ret, failed>>
    /\ pixel_ops' = TRUE
    /\ UNCHANGED <<open_call, close_call>>
    /\ UNCHANGED drvVars

\* The child, line 38: exit(0).  The child stays a zombie until reaped.
WExit(p) ==
    /\ p \in DOMAIN proc
    /\ proc[p].pc = "exit"
    /\ proc' = [proc EXCEPT ![p].pc = "zombie"]
    /\ exited' = exited + 1
    /\ UNCHANGED <<led_map, fbfd, fd_open, mapped, ppc, num_children, n, ret,
                   parent_nice, spawned, joined, rounds, close_calls,
                   close_ret, late_write, failed, writers, fault>>
    /\ UNCHANGED <<open_call, close_call, pixel_ops>>
    /\ UNCHANGED drvVars

ParentStep ==
    \/ MainOpen
    \/ MainFirstClear
    \/ \E ok \in BOOLEAN : MainFork(ok)
    \/ MainWait
    \/ MainCalc
    \/ MainRoundClear
    \/ MainClose

WorkerStep(p) ==
    \/ WNice(p)
    \/ WSetLed(p)
    \/ WExit(p)

Init ==
    /\ led_map \in InitGrids
    /\ fbfd = 0
    /\ fd_open = FALSE
    /\ mapped = FALSE
    /\ ppc = "open"
    /\ num_children = 0
    /\ n = 0
    /\ ret = 0
    /\ proc = <<>>
    /\ parent_nice \in ParentNices
    /\ spawned = 0
    /\ exited = 0
    /\ joined = 0
    /\ rounds = <<>>
    /\ close_calls = 0
    /\ close_ret = 0
    /\ late_write = FALSE
    /\ failed = {}
    /\ writers = NoWriters
    /\ fault = "none"
    /\ drv_call = NoCall
    /\ prev_map = led_map
    /\ drv_ops = 0
    /\ open_call = NoOpen
    /\ close_call = NoClose
    /\ pixel_ops = FALSE
    /\ codec = NoCodec

Next ==
    \/ MainOpen
    \/ MainFirstClear
    \/ \E ok \in BOOLEAN : MainFork(ok)
    \/ MainWait
    \/ MainCalc
    \/ MainRoundClear
    \/ MainClose
    \/ \E p \in Pids : WNice(p)
    \/ \E p \in Pids : WSetLed(p)
    \/ \E p \in Pids : WExit(p)

Spec == Init /\ [][Next]_vars

\* The scheduler runs every runnable process eventually: the parent and
\* each worker take their next step when it stays enabled.
FairSpec ==
    /\ Init
    /\ [][Next]_vars
    /\ WF_vars(ParentStep)
    /\ \A p \in Pids : WF_vars(WorkerStep(p))

(* ---------------------------------------------------------------------- *)
(* DrvSpec: the pixel operations of led_matrix.c, called with arbitrary    *)
(* arguments on an opened and mapped device                                *)
(* ---------------------------------------------------------------------- *)
DrvInit ==
    /\ led_map \in DrvInitGrids
    /\ fbfd = NewFd
    /\ fd_open = TRUE
    /\ mapped = TRUE
    /\ ppc = "driver"
    /\ num_children = 0
    /\ n = 0
    /\ ret = 0
    /\ proc = <<>>
    /\ parent_nice = 0
    /\ spawned = 0
    /\ exited = 0
    /\ joined = 0
    /\ rounds = <<>>
    /\ close_calls = 0
    /\ close_ret = 0
    /\ late_write = FALSE
    /\ failed = {}
    /\ writers = NoWriters
    /\ fault = "none"
    /\ drv_call = NoCall
    /\ prev_map = led_map
    /\ drv_ops = 0
    /\ open_call = NoOpen
    /\ close_call = NoClose
    /\ pixel_ops = FALSE
    /\ codec = NoCodec

DrvReady ==
    /\ ppc = "driver"
    /\ mapped
    /\ fault = "none"
    /\ drv_ops < MaxOps

\* A call of set_led(row, col, color).
DrvSetLed ==
    /\ DrvReady
    /\ \E row \in Coords, col \in Coords, color \in Colors :
          /\ led_map' = set_led(led_map, row, col, color)
          /\ fault' \in set_led_fault(fault, row, col)
          /\ drv_call' = [op |-> "set_led", row |-> row, col |-> col,
                          color |-> color, index |-> set_led_index(row, col)]
    /\ prev_map' = led_map
    /\ drv_ops' = drv_ops + 1
    /\ UNCHANGED codec
    /\ UNCHANGED mainVars

\* A call of set_leds_single_color(color).
DrvSetSingleColor ==
    /\ DrvReady
    /\ \E color \in FillColors :
          /\ led_map' = set_leds_single_color(led_map, color)
          /\ drv_call' = [op |-> "set_leds_single_color", row |-> 0,
                          col |-> 0, color |-> color, index |-> NoWrite]
    /\ prev_map' = led_map
    /\ drv_ops' = drv_ops + 1
    /\ UNCHANGED codec
    /\ UNCHANGED mainVars
    /\ UNCHANGED fault

\* A call of clear_leds().
DrvClear ==
    /\ DrvReady
    /\ led_map' = clear_leds(led_map)
    /\ drv_call' = [op |-> "clear_leds", row |-> 0, col |-> 0,
                    color |-> RGB565_OFF, index |-> NoWrite]
    /\ prev_map' = led_map
    /\ drv_ops' = drv_ops + 1
    /\ UNCHANGED codec
    /\ UNCHANGED mainVars
    /\ UNCHANGED fault

DrvNext ==
    \/ DrvSetLed
    \/ DrvSetSingleColor
    \/ DrvClear

DrvSpec == DrvInit /\ [][DrvNext]_vars

(* ---------------------------------------------------------------------- *)
(* CodecSpec: one call of make_rgb565_color                                *)
(* ---------------------------------------------------------------------- *)
CodecInit ==
    /\ led_map = AllOff
    /\ fbfd = 0
    /\ fd_open = FALSE
    /\ mapped = FALSE
    /\ ppc = "codec"
    /\ num_children = 0
    /\ n = 0
    /\ ret = 0
    /\ proc = <<>>
    /\ parent_nice = 0
    /\ spawned = 0
    /\ exited = 0
    /\ joined = 0
    /\ rounds = <<>>
    /\ close_calls = 0
    /\ close_ret = 0
    /\ late_write = FALSE
    /\ failed = {}
    /\ writers = NoWriters
    /\ fault = "none"
    /\ drv_call = NoCall
    /\ prev_map = led_map
    /\ drv_ops = 0
    /\ open_call = NoOpen
    /\ close_call = NoClose
    /\ pixel_ops = FALSE
    /\ codec = NoCodec

\* A call of make_rgb565_color(r, g, b).
CodecMake ==
    /\ ppc = "codec"
    /\ codec.op = "none"
    /\ \E t \in CodecInputs :
          codec' = [op |-> "make_rgb565_color", r |-> t[1], g |-> t[2],
                    b |-> t[3],
                    out |-> make_rgb565_color(t[1], t[2], t[3])]
    /\ UNCHANGED <<led_map, fault, drv_call, prev_map, drv_ops>>
    /\ UNCHANGED mainVars

CodecNext == CodecMake

CodecSpec == CodecInit /\ [][CodecNext]_vars

(* ---------------------------------------------------------------------- *)
(* Properties                                                              *)
(* ---------------------------------------------------------------------- *)
RowCells(r) == (r * ROW_SIZE)..(r * ROW_SIZE + COL_SIZE - 1)
RowLit(r) == \A c \in RowCells(r) : led_map[c] = RGB565_WHITE
AllRounds == [k \in 1..MaxChildren |-> k]

\* C1: join barrier.  The parent is at the settle work or at the final
\* clear of a round, or has left the round loop, only when every worker has
\* terminated; and any worker not yet terminated was forked in the current
\* round, so a round's workers are all gone before the next round spawns.
C1_JoinBarrier ==
    /\ ppc \in {"calc", "clear", "close", "done"} => Live = {}
    /\ \A p \in Live : p[1] = num_children

\* A round of MaxChildren workers, all joined, stands before its clear.
C1_Witness ==
    /\ ppc = "clear"
    /\ num_children = MaxChildren
    /\ spawned = MaxChildren
    /\ joined = MaxChildren
    /\ \A r \in 0..(MaxChildren - 1) : RowLit(r)

\* C2: close_led_matrix() is called at most once, exactly once when main
\* returns after a successful open, only when no child process is left,
\* and no pixel write happens after it.
C2_CloseOnceAtEnd ==
    /\ close_calls <= 1
    /\ close_calls = 1 => (ppc = "done" /\ DOMAIN proc = {})
    /\ ppc = "close" => Live = {}
    /\ (ppc = "done" /\ rounds # <<>>) => close_calls = 1
    /\ ~late_write

\* main returned after closing, the last round having had all its workers.
C2_Witness ==
    /\ ppc = "done"
    /\ close_calls = 1
    /\ Len(rounds) = MaxChildren
    /\ DOMAIN proc = {}

\* C3 (as claimed): when the parent proceeds to the settle/clear step of
\* round k, exactly k workers were spawned, k exits happened and k waits
\* reaped a worker.
C3_ExactlyKSpawnedAndJoined ==
    ppc \in {"calc", "clear"} =>
        /\ spawned = num_children
        /\ exited = num_children
        /\ joined = num_children

\* C4 (as claimed): set_led with row = 8 or col = 8, the other coordinate
\* in 0..8, stores nothing and leaves all 64 cells as they were.
C4_RowOrCol8WritesNothing ==
    (/\ drv_call.op = "set_led"
     /\ drv_call.row \in 0..ROW_SIZE
     /\ drv_call.col \in 0..COL_SIZE
     /\ (drv_call.row = ROW_SIZE \/ drv_call.col = COL_SIZE)) =>
        /\ drv_call.index = NoWrite
        /\ led_map = prev_map

\* C5 (as claimed): set_led stores at an index in 0..63 or not at all.
C5_StoreIndexInGrid ==
    drv_call.op = "set_led" =>
        (drv_call.index = NoWrite \/ drv_call.index \in Cells)

\* C6: every cell written since the last clear was written by workers whose
\* n is the cell's row, and never by two different workers of one round.
C6_WorkersWriteOwnRow ==
    \A c \in Cells : \A p \in writers[c] :
        /\ c \in RowCells(p[2])
        /\ \A q \in writers[c] : q[1] = p[1] => q = p

\* Two workers of one round have both written their last column.
C6_Witness ==
    /\ \E p \in writers[COL_SIZE - 1] : p[1] = MaxChildren
    /\ \E q \in writers[2 * ROW_SIZE - 1] : q[1] = MaxChildren

\* C7 (as claimed): when the parent stands before the final clear of round
\* k, rows 0..k-1 are fully lit (lit cells stay lit until that clear, so
\* this is the state the claim says every run of the round reaches).
C7_RowsLitBeforeClear ==
    ppc = "clear" => \A r \in 0..(num_children - 1) : RowLit(r)

\* C8: num_children only ever steps from k to k+1, and once the device is
\* open the parent eventually has completed the rounds 1, 2, ... in this
\* order, each once, has called close_led_matrix() and has returned.
C8_RoundsInOrderThenClose ==
    /\ [][num_children' = num_children \/ num_children' = num_children + 1]_vars
    /\ (ppc = "clear0") ~>
          (ppc = "done" /\ close_calls = 1 /\ rounds = AllRounds)

\* main returned 0 after the rounds 1..MaxChildren.
C8_Witness ==
    /\ ppc = "done"
    /\ ret = 0
    /\ rounds = AllRounds

\* C9: whenever the parent is in the fork loop and has not yet spawned a
\* worker of the round, all 64 cells are OFF.
C9_GridOffAtFirstSpawn ==
    (ppc = "fork" /\ spawned = 0) => led_map = AllOff

\* The last round is about to spawn its first worker.
C9_Witness ==
    /\ ppc = "fork"
    /\ spawned = 0
    /\ num_children = MaxChildren
    /\ rounds # <<>>

\* C10 (as claimed): after the fork of worker f failed, no worker with a
\* larger n exists in that round and the parent does not go on to the
\* settle/clear step of the round.
C10_SpawnFailureAbortsRound ==
    \A f \in failed :
        /\ \A p \in DOMAIN proc : p[2] < f
        /\ ppc \notin {"calc", "clear"}

\* C11: when open_led_matrix() returned -1, main has returned -1 and the
\* run has performed no pixel operation, forked no worker and not called
\* close_led_matrix(); so pixel operations and workers exist only after
\* open_led_matrix() returned 0.
C11_OpenFailureStopsRun ==
    /\ open_call.ret = 0 - 1 =>
          /\ ppc = "done"
          /\ ret = 0 - 1
          /\ ~pixel_ops
          /\ DOMAIN proc = {}
          /\ spawned = 0
          /\ rounds = <<>>
          /\ close_calls = 0
    /\ pixel_ops => open_call.ret = 0
    /\ DOMAIN proc # {} => open_call.ret = 0
    /\ close_calls > 0 => open_call.ret = 0

\* main returned after the identity check of the device failed.
C11_Witness ==
    /\ ppc = "done"
    /\ open_call.ret = 0 - 1
    /\ open_call.open_ok
    /\ open_call.ioctl_ok
    /\ open_call.id # DeviceId

\* C12: open_led_matrix() returns 0 only when open(), the identity query
\* and mmap() succeeded and the identity string is "RPi-Sense FB"; then the
\* descriptor is open and the region mapped until close_led_matrix().  When
\* it returns -1 no descriptor is open and nothing is mapped.
C12_OpenSuccessAndCleanup ==
    /\ open_call.ret = 0 =>
          /\ open_call.open_ok
          /\ open_call.ioctl_ok
          /\ open_call.id = DeviceId
          /\ open_call.mmap_ok
          /\ fbfd = NewFd
          /\ close_calls = 0 => (fd_open /\ mapped)
    /\ open_call.ret = 0 - 1 => (~fd_open /\ ~mapped)

\* open_led_matrix() failed in mmap(), after the descriptor was obtained
\* and the identity had matched.
C12_Witness ==
    /\ open_call.ret = 0 - 1
    /\ open_call.open_ok
    /\ open_call.ioctl_ok
    /\ open_call.id = DeviceId
    /\ ~open_call.mmap_ok
    /\ ~fd_open

\* C13: close_led_matrix() returns -1 exactly when munmap() or close()
\* failed and 0 otherwise, and each of the two steps takes effect whatever
\* the other's outcome: a successful close() releases the descriptor also
\* after a failed munmap().
C13_CloseAttemptsBoth ==
    close_calls > 0 =>
        /\ close_call.ret \in {0, 0 - 1}
        /\ close_call.ret = 0 - 1 <=>
              ~(close_call.munmap_ok /\ close_call.close_ok)
        /\ close_call.close_ok => ~fd_open
        /\ close_call.munmap_ok => ~mapped
        /\ close_ret = close_call.ret

\* munmap() failed, close() succeeded: -1 is returned, the descriptor closed.
C13_Witness ==
    /\ close_calls = 1
    /\ ~close_call.munmap_ok
    /\ close_call.close_ok
    /\ close_call.ret = 0 - 1
    /\ ~fd_open

\* The result of the codec call when its arguments are (r, g, b).
CodecMaps(r, g, b, out) ==
    (codec.r = r /\ codec.g = g /\ codec.b = b) => codec.out = out

\* C14: for r, g, b in 0..255, make_rgb565_color(r, g, b) is
\* (r div 8)*2048 + (g div 4)*32 + (b div 8), a 16-bit value, and the
\* primary colours give the predefined RGB565_* constants.
C14_Rgb565Encoding ==
    (/\ codec.op = "make_rgb565_color"
     /\ codec.r \in Channel /\ codec.g \in Channel /\ codec.b \in Channel) =>
        /\ codec.out = (codec.r \div 8) * 2048 + (codec.g \div 4) * 32
                         + (codec.b \div 8)
        /\ codec.out \in 0..65535
        /\ CodecMaps(ChannelMax, 0, 0, RGB565_RED)
        /\ CodecMaps(0, ChannelMax, 0, RGB565_GREEN)
        /\ CodecMaps(0, 0, ChannelMax, RGB565_BLUE)
        /\ CodecMaps(ChannelMax, ChannelMax, ChannelMax, RGB565_WHITE)
        /\ CodecMaps(0, 0, 0, RGB565_OFF)
        /\ CodecMaps(0, ChannelMax, ChannelMax, RGB565_CYAN)
        /\ CodecMaps(ChannelMax, 0, ChannelMax, RGB565_MAGENTA)
        /\ CodecMaps(ChannelMax, ChannelMax, 0, RGB565_YELLOW)

\* make_rgb565_color(0, 255, 0) returned 0x07E0.
C14_Witness ==
    /\ codec.op = "make_rgb565_color"
    /\ codec.r = 0
    /\ codec.g = ChannelMax
    /\ codec.b = 0
    /\ codec.out = RGB565_GREEN

C16_FillThenClear ==
    /\ drv_call.op = "set_leds_single_color" =>
          \A c \in Cells : led_map[c] = drv_call.color
    /\ drv_call.op = "clear_leds" => led_map = AllOff

\* clear_leds() ran on a grid that the call before it had filled WHITE.
C16_Witness ==
    /\ drv_ops = 2
    /\ drv_call.op = "clear_leds"
    /\ prev_map = AllWhite
    /\ led_map = AllOff

\* C17: for row, col in 0..7, set_led(row, col, color) stores color at
\* index row*8+col, which lies in 0..63 and belongs to no other (row, col)
\* in 0..7 x 0..7, and leaves the other 63 cells as they were.
C17_SetLedWritesOneCell ==
    (/\ drv_call.op = "set_led"
     /\ drv_call.row \in 0..(ROW_SIZE - 1)
     /\ drv_call.col \in 0..(COL_SIZE - 1)) =>
        /\ drv_call.index = drv_call.row * 8 + drv_call.col
        /\ drv_call.index \in Cells
        /\ fault = "none"
        /\ led_map[drv_call.index] = drv_call.color
        /\ \A c \in Cells \ {drv_call.index} : led_map[c] = prev_map[c]
        /\ \A r2 \in 0..(ROW_SIZE - 1) : \A c2 \in 0..(COL_SIZE - 1) :
              set_led_index(r2, c2) = drv_call.index =>
                  (r2 = drv_call.row /\ c2 = drv_call.col)

\* set_led(7, 7, color) changed the last cell of the grid.
C17_Witness ==
    /\ drv_call.op = "set_led"
    /\ drv_call.row = ROW_SIZE - 1
    /\ drv_call.col = COL_SIZE - 1
    /\ drv_call.index = NUM_LEDS - 1
    /\ led_map[NUM_LEDS - 1] # prev_map[NUM_LEDS - 1]

\* C18: a round in which a fork failed has fewer workers than waits; the
\* parent in its wait loop still gets to the settle step, with no child
\* left, once the workers that exist have terminated.
C18_MissingWorkersDoNotBlock ==
    (ppc = "wait" /\ failed # {}) ~> (ppc = "calc" /\ DOMAIN proc = {})

\* The parent is at the settle step of a round in which one fork failed and
\* the other workers were reaped.
C18_Witness ==
    /\ ppc = "calc"
    /\ num_children = MaxChildren
    /\ Cardinality(failed) = 1
    /\ joined = MaxChildren - 1
    /\ DOMAIN proc = {}

\* C19: while a round k runs, every cell is OFF or WHITE, every row n < k
\* is WHITE in its columns 0..j-1 and OFF in j..7 for some j in 0..8, and
\* every row n >= k is OFF.
C19_RowsArePrefixes ==
    ppc \in {"fork", "wait", "calc", "clear"} =>
        /\ \A c \in Cells : led_map[c] \in {RGB565_OFF, RGB565_WHITE}
        /\ \A r \in 0..(ROW_SIZE - 1) :
              IF r < num_children
              THEN \E j \in 0..COL_SIZE : \A c \in 0..(COL_SIZE - 1) :
                      led_map[r * ROW_SIZE + c] =
                          (IF c < j THEN RGB565_WHITE ELSE RGB565_OFF)
              ELSE \A c \in RowCells(r) : led_map[c] = RGB565_OFF

\* Row 0 is lit up to column 4 and row 1 up to column 1, the rest is OFF.
C19_Witness ==
    /\ ppc = "wait"
    /\ num_children = MaxChildren
    /\ led_map[4] = RGB565_WHITE
    /\ led_map[5] = RGB565_OFF
    /\ led_map[ROW_SIZE + 1] = RGB565_WHITE
    /\ led_map[ROW_SIZE + 2] = RGB565_OFF

RECURSIVE SumSeq(_)
SumSeq(sq) == IF sq = <<>> THEN 0 ELSE Head(sq) + SumSeq(Tail(sq))

\* C20: every child process was forked by the parent in the current round
\* with an n below num_children; it has made at most 8 pixel writes and is
\* at exit(0) or terminated exactly when it has made 8.  So the children
\* alive are at most num_children, at most MaxChildren, and with at most k
\* forks in round k the run forks at most 1 + 2 + ... + MaxChildren workers.
C20_WorkersOnlyRunChild ==
    /\ \A p \in DOMAIN proc :
          /\ p[1] = num_children
          /\ p[2] \in 0..(num_children - 1)
          /\ proc[p].i \in 0..8
          /\ proc[p].pc \in {"exit", "zombie"} <=> proc[p].i = 8
          /\ \A c \in Cells : p \in writers[c] => proc[p].i > c - p[2] * ROW_SIZE
    /\ Cardinality(DOMAIN proc) <= spawned
    /\ spawned <= num_children
    /\ spawned + Cardinality(failed) <= num_children
    /\ Cardinality(Live) <= MaxChildren
    /\ SumSeq(rounds) + spawned <= (MaxChildren * (MaxChildren + 1)) \div 2

\* All MaxChildren workers of the last round have terminated and none is
\* reaped yet.
C20_Witness ==
    /\ num_children = MaxChildren
    /\ spawned = MaxChildren
    /\ Cardinality(Zombies) = MaxChildren
    /\ \A p \in DOMAIN proc : proc[p].i = 8

====
